---- MODULE Spec2Model ----
(***************************************************************************)
(* Model of the PowerPoint inverter's batch orchestration                  *)
(* (src/src/pp/core/inverter.py) and of the archive expansion routines     *)
(* (inverter._extract_pptx_from_zip, file_handler._extract_from_zip).      *)
(*                                                                         *)
(* Strings that the code takes apart (file names, archive entry names) are *)
(* sequences of tokens, so that startswith, endswith, lower, basename,     *)
(* splitext and f-string concatenation are computed, not assumed.          *)
(***************************************************************************)
EXTENDS Integers, Sequences, FiniteSets, TLC

\* ------------------------------------------------------------------ bounds

\* Largest number of jobs in files_to_process.
MaxJobs == 3
\* Largest number of entries of an uploaded container archive.
MaxEntries == 2

\* Values of os.cpu_count(); 0 stands for None (both are falsy in `cpu or 1`).
CpuCounts == {0, 1, 2, 4}

\* Values of InversionConfig.file_suffix tried.
Suffixes == {"(inverted)"}

\* Kinds of document bytes a job can carry: bytes python-pptx cannot load, a
\* presentation whose slides all process cleanly, a presentation with one
\* slide whose processing yields a warning.
DocKinds == {"corrupt", "clean", "warns"}

None == "None"
\* output_data = None, among byte strings.
NoData == <<"None">>

\* ------------------------------------------------------------------ state

VARIABLES
    \* process_files / process_files_streaming
    files_to_process,   \* list of (file_data, filename)
    config,             \* the InversionConfig of the run
    cpu_count,          \* os.cpu_count()
    use_threads,        \* PP_FORCE_THREADS == "1"
    streaming,          \* TRUE: process_files_streaming, FALSE: process_files
    has_callback,       \* progress_callback is not None
    pc,                 \* position of the orchestrating thread
    iterator,           \* number of jobs next(iterator) has handed out
    futures,            \* keys of the futures dict (a future is named by its job)
    fstate,             \* per job: state of its future
    broken,             \* the process pool is broken
    done,               \* the done set of the current wait() still to iterate
    results,            \* process_files: results; streaming: results yielded
    order,              \* job of each collected result, in collection order
    completed,          \* the completed counter
    calls,              \* calls made to progress_callback
    submits,            \* per job: times executor.submit took it
    batch,              \* the BatchResult returned, or None
    \* archive expansion
    zip_ok,             \* the upload is a readable ZIP (else BadZipFile)
    namelist,           \* zf.namelist() of the uploaded container
    zip_done,           \* extraction routines that have run on it
    extracted,          \* result of inverter._extract_pptx_from_zip
    extracted_fh,       \* result of file_handler._extract_from_zip
    \* apply_color_transform
    source,             \* the image first handed to apply_color_transform
    image,              \* the image returned by the latest pass
    passes,             \* the (target_dark, target_light) of each pass so far
    \* process_slide
    slide_before,       \* the slide handed to process_slide
    slide,              \* the slide as process_slide leaves it
    slide_config,       \* the InversionConfig of the call
    slide_out,          \* whether the call returned or raised, and what
    \* _process_file on one document
    deck,               \* the document (file_data) handed to _process_file
    deck_config,        \* the caller's InversionConfig
    deck_pc,            \* "idle", "start" or "done"
    deck_result,        \* the ProcessingResult returned
    deck_trace,         \* the slide loop: slides visited and as they are left
    \* validate_color_contrast
    val_colors,         \* (foreground, background) handed to the validation
    val_pc,             \* "idle", "start" or "done"
    val_ratio,          \* what calculate_contrast_ratio returned
    val_warnings,       \* what validate_color_contrast returned
    \* cli.main
    cli_args,           \* the parsed command line
    cli_pc,             \* position of main
    cli_config,         \* the InversionConfig built by from_hex
    cli_error,          \* the exception that ended main, or None
    cli_exit,           \* exit code of the process, -1 while it runs
    cli_submitted       \* process_files has been called

batchVars == <<files_to_process, config, cpu_count, use_threads, streaming,
               has_callback, pc, iterator, futures, fstate, broken, done,
               results, order, completed, calls, submits, batch>>
zipVars == <<zip_ok, namelist, zip_done, extracted, extracted_fh>>
imgVars == <<source, image, passes>>
slideVars == <<slide_before, slide, slide_config, slide_out>>
docVars == <<deck, deck_config, deck_pc, deck_result, deck_trace>>
valVars == <<val_colors, val_pc, val_ratio, val_warnings>>
cliVars == <<cli_args, cli_pc, cli_config, cli_error, cli_exit, cli_submitted>>
mediaVars == <<imgVars, slideVars, docVars, valVars, cliVars>>
vars == <<batchVars, zipVars, mediaVars>>

\* ------------------------------------------------------------ string helpers

Last(s) == s[Len(s)]
Front(s) == SubSeq(s, 1, Len(s) - 1)

\* Extension tokens: a token that is a dot followed by letters.
ExtTokens == {".pptx", ".PPTX", ".txt"}

\* str.lower() on one token.
LowerToken(t) ==
    CASE t = ".PPTX" -> ".pptx"
      [] t = "__MACOSX" -> "__macosx"
      [] t = "Deck" -> "deck"
      [] OTHER -> t

\* str.lower()
Lower(name) == [i \in 1..Len(name) |-> LowerToken(name[i])]

\* str.startswith(prefix) for a one-token prefix.
StartsWith(name, prefix) == Len(name) >= 1 /\ name[1] = prefix

\* str.endswith(suffix) for a one-token suffix.
EndsWith(name, suffix) == Len(name) >= 1 /\ Last(name) = suffix

\* Index of the last "/" of name, 0 when there is none.
LastSlash(name) ==
    LET S == {i \in 1..Len(name) : name[i] = "/"}
    IN  IF S = {} THEN 0 ELSE CHOOSE i \in S : \A k \in S : k <= i

\* os.path.basename: what follows the last "/".
Basename(name) == SubSeq(name, LastSlash(name) + 1, Len(name))

\* os.path.splitext(filename)[0]: the name without its last extension; a
\* leading dot of the basename does not start an extension.
SplitextRoot(name) ==
    IF Len(Basename(name)) >= 2 /\ Last(name) \in ExtTokens
    THEN Front(name)
    ELSE name

\* ------------------------------------------------------------ float32

\* numpy float32 values, as sign * m * 2^e with m = 0 or 2^23 <= m < 2^24;
\* every operation rounds to nearest, ties to even. Products are formed in
\* 12-bit limbs.
TwoTo23 == 2^23
TwoTo24 == 2^24
Limb == 2^12

F32Zero == [s |-> 1, m |-> 0, e |-> 0]

\* The mantissa m with remainder rem (out of 2 * half) below it, rounded.
F32Round(s, m, e, rem, half) ==
    LET up == rem > half \/ (rem = half /\ m % 2 = 1)
        m1 == IF up THEN m + 1 ELSE m
    IN  IF m1 = TwoTo24 THEN [s |-> s, m |-> TwoTo23, e |-> e + 1]
        ELSE [s |-> s, m |-> m1, e |-> e]

\* Long division n / 255 until the quotient q has 24 significant bits.
RECURSIVE F32DivLoop(_, _, _)
F32DivLoop(q, rem, k) ==
    IF q >= TwoTo23 THEN F32Round(1, q, 0 - k, 2 * rem, 255)
    ELSE LET r2 == 2 * rem
         IN  IF r2 >= 255 THEN F32DivLoop(2 * q + 1, r2 - 255, k + 1)
             ELSE F32DivLoop(2 * q, r2, k + 1)

\* float32(n) / 255.0 for an integer 0 <= n <= 255 (also float32(n / 255.0):
\* the double quotient is never near a float32 tie).
F32Div255(n) == IF n = 0 THEN F32Zero ELSE F32DivLoop(n \div 255, n % 255, 0)

F32Neg(x) == [x EXCEPT !.s = 0 - x.s]

\* float32 product.
F32Mul(x, y) ==
    IF x.m = 0 \/ y.m = 0 THEN F32Zero
    ELSE LET a1 == x.m \div Limb
             a0 == x.m % Limb
             b1 == y.m \div Limb
             b0 == y.m % Limb
             lo == a0 * b0
             mid == a1 * b0 + a0 * b1 + (lo \div Limb)
             H == a1 * b1 + (mid \div Limb)
             L == (mid % Limb) * Limb + (lo % Limb)
             s == x.s * y.s
         IN  IF H >= TwoTo23
             THEN F32Round(s, H, x.e + y.e + 24, L, TwoTo23)
             ELSE F32Round(s, 2 * H + (L \div TwoTo23), x.e + y.e + 23,
                           L % TwoTo23, 2^22)

\* x shifted right by n bits, a lost 1 kept in the lowest bit (sticky).
StickyShift(x, n) ==
    IF n >= 30 THEN (IF x = 0 THEN 0 ELSE 1)
    ELSE LET q == x \div (2^n)
         IN  IF x % (2^n) # 0 /\ q % 2 = 0 THEN q + 1 ELSE q

\* R * 2^e with 2^26 <= R < 2^27 after normalisation: three bits below the
\* mantissa (guard, round, sticky).
RECURSIVE F32Normalise(_, _, _)
F32Normalise(s, R, e) ==
    IF R = 0 THEN F32Zero
    ELSE IF R >= 2^27 THEN F32Normalise(s, StickyShift(R, 1), e + 1)
    ELSE IF R < 2^26 THEN F32Normalise(s, 2 * R, e - 1)
    ELSE F32Round(s, R \div 8, e + 3, R % 8, 4)

\* float32 sum.
F32Add(x, y) ==
    IF x.m = 0 THEN y
    ELSE IF y.m = 0 THEN x
    ELSE LET xbig == x.e > y.e \/ (x.e = y.e /\ x.m >= y.m)
             big == IF xbig THEN x ELSE y
             small == IF xbig THEN y ELSE x
             M1 == big.m * 8
             M2 == StickyShift(small.m * 8, big.e - small.e)
         IN  IF big.s = small.s
             THEN F32Normalise(big.s, M1 + M2, big.e - 3)
             ELSE F32Normalise(big.s, M1 - M2, big.e - 3)

\* x * 255 in float32.
F32Mul255(x) ==
    IF x.m = 0 THEN F32Zero
    ELSE LET lo == 255 * (x.m % Limb)
             H == 255 * (x.m \div Limb) + (lo \div Limb)
             p0 == lo % Limb
         IN  IF H >= 2^19
             THEN F32Round(x.s, H * 16 + (p0 \div 256), x.e + 8, p0 % 256, 128)
             ELSE F32Round(x.s, H * 32 + (p0 \div 128), x.e + 7, p0 % 128, 64)

\* astype(np.uint8): truncation toward zero, modulo 256.
F32ToUint8(x) ==
    IF x.m = 0 \/ x.s < 0 THEN 0
    ELSE IF x.e >= 0 THEN (x.m * 2^x.e) % 256
    ELSE IF 0 - x.e >= 24 THEN 0
    ELSE (x.m \div 2^(0 - x.e)) % 256

\* ------------------------------------------------------------ colour transform

MaxChannel == 255

\* An image: mode, size (width, height), data (the pixels, row by row, each a
\* tuple of band values), transparency (info["transparency"] of an RGB image,
\* or NoKey) and palette (RGBA entries of a P image, or none).
NoKey == <<>>
Img(mode, size, data, transparency, palette) ==
    [mode |-> mode, size |-> size, data |-> data,
     transparency |-> transparency, palette |-> palette]
NoImage == Img("None", <<0, 0>>, <<>>, NoKey, <<>>)

\* (target_dark, target_light) pairs of a call: the default pair, the pairs
\* of the tests, a white background with a dark grey foreground, and each of
\* them swapped.
Black == <<0, 0, 0>>
White == <<255, 255, 255>>
DefaultPair == <<Black, White>>
Targets ==
    { DefaultPair, <<White, Black>>,
      <<<<0, 0, 128>>, <<255, 255, 0>>>>, <<<<255, 255, 0>>, <<0, 0, 128>>>>,
      <<<<100, 50, 25>>, <<200, 150, 125>>>>,
      <<<<200, 150, 125>>, <<100, 50, 25>>>>,
      <<White, <<51, 51, 51>>>>, <<<<51, 51, 51>>, White>> }

\* The inversion done through the float path instead of on integers.
invert_band_float(v) ==
    F32ToUint8(F32Mul255(F32Add(F32Div255(MaxChannel), F32Neg(F32Div255(v)))))

\* No inversion at all.
invert_band_identity(v) == v

\* ImageOps.invert on one band value: the lookup table 255 - i.
invert_band(v) == MaxChannel - v

\* The arithmetic of _remap_colors on one band value of one pixel: float32
\* on the normalised value, then truncation to uint8.
_remap_value(v, dark, light) ==
    LET arr == F32Div255(v)
        dark_val == F32Div255(dark)
        span == IF light >= dark THEN F32Div255(light - dark)
                ELSE F32Neg(F32Div255(dark - light))
        result == F32Add(dark_val, F32Mul(arr, span))
    IN  F32ToUint8(F32Mul255(result))

\* The band maps of the target pairs in use: _remap_colors works pointwise,
\* so each band of each pair is one function of the band value.
BandPairs == {<<t[1][c], t[2][c]>> : t \in Targets, c \in 1..3}
RemapTable ==
    [p \in BandPairs |-> [v \in 0..MaxChannel |-> _remap_value(v, p[1], p[2])]]

\* _remap_colors: every band of every pixel, each band with its own targets.
_remap_colors(img, target_dark, target_light) ==
    Img("RGB", img.size,
        [k \in 1..Len(img.data) |->
            [i \in 1..3 |->
                RemapTable[<<target_dark[i], target_light[i]>>][img.data[k][i]]]],
        NoKey, <<>>)

\* Image.convert between the modes the transform uses.
convert(img, mode) ==
    LET px(p) ==
            CASE img.mode = "RGBA" /\ mode = "RGB" -> <<p[1], p[2], p[3]>>
              [] img.mode = "P" /\ mode = "RGBA" -> img.palette[p[1]]
              [] img.mode = "P" /\ mode = "RGB" ->
                    <<img.palette[p[1]][1], img.palette[p[1]][2],
                      img.palette[p[1]][3]>>
              [] img.mode = "L" /\ mode = "RGB" -> <<p[1], p[1], p[1]>>
              [] img.mode = "LA" /\ mode = "RGB" -> <<p[1], p[1], p[1]>>
              [] img.mode = "RGB" /\ mode = "RGBA" ->
                    <<p[1], p[2], p[3], MaxChannel>>
              [] OTHER -> p
    IN  Img(mode, img.size, [k \in 1..Len(img.data) |-> px(img.data[k])],
            NoKey, <<>>)

\* img.split()[3]: the alpha band of an RGBA image, as an L image.
split_alpha(img) ==
    Img("L", img.size, [k \in 1..Len(img.data) |-> <<img.data[k][4]>>],
        NoKey, <<>>)

\* _convert_transparency_color_to_alpha: the image itself and a mask that is 0
\* where the pixel equals the key colour and 255 elsewhere.
_convert_transparency_color_to_alpha(img, transparency_color) ==
    [img_rgb |-> img,
     alpha |-> Img("L", img.size,
                   [k \in 1..Len(img.data) |->
                       IF img.data[k] = transparency_color THEN <<0>>
                       ELSE <<MaxChannel>>],
                   NoKey, <<>>)]

\* result.putalpha(alpha) with the band dropped: every pixel opaque.
putalpha_opaque(img, alpha) ==
    Img("RGBA", img.size,
        [k \in 1..Len(img.data) |->
            <<img.data[k][1], img.data[k][2], img.data[k][3], MaxChannel>>],
        NoKey, <<>>)

\* result.putalpha(alpha) on an RGBA image: the alpha band is replaced.
putalpha(img, alpha) ==
    Img("RGBA", img.size,
        [k \in 1..Len(img.data) |->
            <<img.data[k][1], img.data[k][2], img.data[k][3],
              alpha.data[k][1]>>],
        NoKey, <<>>)

\* The mode dispatch with a palette image flattened like any other mode.
decompose_palette_flat(img) ==
    CASE img.mode = "RGBA" ->
            [img_rgb |-> convert(img, "RGB"), alpha |-> split_alpha(img)]
      [] img.mode = "RGB" /\ img.transparency # NoKey ->
            _convert_transparency_color_to_alpha(img, img.transparency)
      [] img.mode = "RGB" -> [img_rgb |-> img, alpha |-> NoImage]
      [] OTHER -> [img_rgb |-> convert(img, "RGB"), alpha |-> NoImage]

\* The mode dispatch of apply_color_transform: the RGB content and the alpha
\* mask (NoImage for None).
decompose(img) ==
    CASE img.mode = "RGBA" ->
            [img_rgb |-> convert(img, "RGB"), alpha |-> split_alpha(img)]
      [] img.mode = "RGB" /\ img.transparency # NoKey ->
            _convert_transparency_color_to_alpha(img, img.transparency)
      [] img.mode = "P" ->
            LET rgba == convert(img, "RGBA")
            IN  [img_rgb |-> convert(rgba, "RGB"), alpha |-> split_alpha(rgba)]
      [] img.mode # "RGB" ->
            [img_rgb |-> convert(img, "RGB"), alpha |-> NoImage]
      [] OTHER -> [img_rgb |-> img, alpha |-> NoImage]

\* ImageOps.invert on an RGB image.
ImageOps_invert(img_rgb) ==
    Img("RGB", img_rgb.size,
        [k \in 1..Len(img_rgb.data) |->
            [i \in 1..3 |-> invert_band(img_rgb.data[k][i])]],
        img_rgb.transparency, <<>>)

apply_color_transform(img, target_dark, target_light) ==
    LET d == decompose(img)
        inverted == ImageOps_invert(d.img_rgb)
        result == IF target_dark = Black /\ target_light = White
                  THEN inverted
                  ELSE _remap_colors(inverted, target_dark, target_light)
    IN  IF d.alpha # NoImage THEN putalpha(convert(result, "RGBA"), d.alpha)
        ELSE result

ImageIdle ==
    /\ source = NoImage
    /\ image = NoImage
    /\ passes = <<>>

\* ------------------------------------------------------------ one slide

\* A shape of slide.shapes. kind is "text", "picture", "other" or "unknown"
\* (a shape whose shape_type raises); runs are the font colours of the runs
\* of its text frame, paragraph by paragraph; text_fault: setting a run colour
\* raises; fault is where invert_image raises on it: "none", "decode" (before
\* the shape tree is touched) or "insert" (in add_picture).
Shape(id, kind, runs, text_fault, geometry, img, fault) ==
    [shape_id |-> id, kind |-> kind, has_text_frame |-> kind = "text",
     runs |-> runs, text_fault |-> text_fault,
     left |-> geometry[1], top |-> geometry[2], width |-> geometry[3],
     height |-> geometry[4], image |-> img, fault |-> fault]

\* A run colour or fill colour that is not set (inherited from the theme).
NoColor == <<>>
NoFill == [type |-> "None", rgb |-> NoColor]
Slide(background, bg_fault, shapes) ==
    [background |-> background, bg_fault |-> bg_fault, shapes |-> shapes]
NoSlide == Slide(NoFill, FALSE, <<>>)

\* _set_background_color: fill.solid(); fill.fore_color.rgb = color.
_set_background_color(s, color) ==
    [s EXCEPT !.background = [type |-> "solid", rgb |-> color]]

\* Only the first run of the text frame gets the colour.
_invert_text_color_first_run(shape, color) ==
    [shape EXCEPT !.runs = [r \in 1..Len(shape.runs) |->
                               IF r = 1 THEN color ELSE shape.runs[r]]]

\* _invert_text_color: every run of every paragraph gets the colour.
_invert_text_color(shape, color) ==
    [shape EXCEPT !.runs = [r \in 1..Len(shape.runs) |-> color]]

is_picture_shape(shape) == shape.kind = "picture"

RemoveShape(shapes, id) == SelectSeq(shapes, LAMBDA x : x.shape_id # id)

RECURSIVE MaxShapeId(_)
MaxShapeId(shapes) ==
    IF shapes = <<>> THEN 0
    ELSE LET m == MaxShapeId(Tail(shapes))
         IN  IF Head(shapes).shape_id > m THEN Head(shapes).shape_id ELSE m

\* invert_image: the transformed picture is saved, the original element is
\* removed from the shape tree and add_picture appends the replacement with
\* the original's left, top, width and height; any exception becomes the
\* returned warning.
invert_image(s, shape, background_color, foreground_color) ==
    IF shape.fault = "decode"
    THEN [slide |-> s, warning |-> "Image processing failed: error"]
    ELSE LET removed == RemoveShape(s.shapes, shape.shape_id)
             picture ==
                 Shape(MaxShapeId(s.shapes) + 1, "picture", <<>>, FALSE,
                       <<shape.left, shape.top, shape.width, shape.height>>,
                       <<"transformed", shape.image, background_color,
                         foreground_color>>, "none")
         IN  IF shape.fault = "insert"
             THEN [slide |-> [s EXCEPT !.shapes = removed],
                   warning |-> "Image processing failed: error"]
             ELSE [slide |-> [s EXCEPT !.shapes = Append(removed, picture)],
                   warning |-> None]

\* The first loop of process_slide over slide.shapes, from shape i on: text
\* colours are set and picture shapes collected; raised when shape_type
\* raises.
RECURSIVE ShapeLoop(_, _, _, _, _)
ShapeLoop(s, i, conf, warnings, picture_shapes) ==
    IF i > Len(s.shapes)
    THEN [slide |-> s, warnings |-> warnings,
          picture_shapes |-> picture_shapes, raised |-> FALSE]
    ELSE LET shape == s.shapes[i]
             texted == shape.has_text_frame /\ ~shape.text_fault
             s1 == IF texted
                   THEN [s EXCEPT !.shapes[i] =
                            _invert_text_color(shape, conf.foreground_color)]
                   ELSE s
             w1 == IF shape.has_text_frame /\ shape.text_fault
                   THEN Append(warnings, "Text: error") ELSE warnings
         IN  IF shape.kind = "unknown"
             THEN [slide |-> s1, warnings |-> w1,
                   picture_shapes |-> picture_shapes, raised |-> TRUE]
             ELSE ShapeLoop(s1, i + 1, conf, w1,
                            IF is_picture_shape(shape)
                            THEN Append(picture_shapes, shape)
                            ELSE picture_shapes)

\* The second loop giving up at the first picture that fails.
RECURSIVE PictureLoop_abort(_, _, _, _, _)
PictureLoop_abort(s, picture_shapes, conf, warnings, processed) ==
    IF picture_shapes = <<>>
    THEN [slide |-> s, warnings |-> warnings, raised |-> FALSE,
          processed |-> processed]
    ELSE LET r == invert_image(s, Head(picture_shapes),
                               conf.background_color, conf.foreground_color)
         IN  IF r.warning # None
             THEN [slide |-> r.slide, warnings |-> Append(warnings, r.warning),
                   raised |-> FALSE,
                   processed |-> Append(processed,
                                        Head(picture_shapes).shape_id)]
             ELSE PictureLoop_abort(r.slide, Tail(picture_shapes), conf,
                                    warnings,
                                    Append(processed,
                                           Head(picture_shapes).shape_id))

\* The second loop of process_slide, over the collected picture shapes.
RECURSIVE PictureLoop(_, _, _, _, _)
PictureLoop(s, picture_shapes, conf, warnings, processed) ==
    IF picture_shapes = <<>>
    THEN [slide |-> s, warnings |-> warnings, raised |-> FALSE,
          processed |-> processed]
    ELSE LET r == invert_image(s, Head(picture_shapes),
                               conf.background_color,
                               conf.foreground_color)
         IN  PictureLoop(r.slide, Tail(picture_shapes), conf,
                         IF r.warning # None THEN Append(warnings, r.warning)
                         ELSE warnings,
                         Append(processed, Head(picture_shapes).shape_id))

\* process_slide with the pictures replaced whatever conf.invert_images says.
process_slide_images_always(s, conf) ==
    LET s0 == IF s.bg_fault THEN s
              ELSE _set_background_color(s, conf.background_color)
        w0 == IF s.bg_fault THEN <<"Background: error">> ELSE <<>>
        t == ShapeLoop(s0, 1, conf, w0, <<>>)
    IN  IF t.raised
        THEN [slide |-> t.slide, warnings |-> t.warnings, raised |-> TRUE,
              processed |-> <<>>]
        ELSE PictureLoop(t.slide, t.picture_shapes, conf, t.warnings, <<>>)

\* process_slide: the slide as it is left, the warnings returned (or raised),
\* and the pictures invert_image was called on, in call order.
process_slide(s, conf) ==
    LET s0 == IF s.bg_fault THEN s
              ELSE _set_background_color(s, conf.background_color)
        w0 == IF s.bg_fault THEN <<"Background: error">> ELSE <<>>
        t == ShapeLoop(s0, 1, conf, w0, <<>>)
    IN  IF t.raised \/ ~conf.invert_images
        THEN [slide |-> t.slide, warnings |-> t.warnings, raised |-> t.raised,
              processed |-> <<>>]
        ELSE PictureLoop(t.slide, t.picture_shapes, conf, t.warnings, <<>>)

\* process_slide_safe with the exception of process_slide let through.
process_slide_safe_unguarded(s, conf) ==
    LET r == process_slide(s, conf)
    IN  [success |-> ~r.raised, warnings |-> r.warnings, slide |-> r.slide,
         raised |-> r.raised]

\* process_slide_safe: (True, warnings) of process_slide, or (False,
\* ["Slide failed: ..."]) when it raises; it never raises itself.
process_slide_safe(s, conf) ==
    LET r == process_slide(s, conf)
    IN  IF r.raised
        THEN [success |-> FALSE, warnings |-> <<"Slide failed: error">>,
              slide |-> r.slide, raised |-> FALSE]
        ELSE [success |-> TRUE, warnings |-> r.warnings, slide |-> r.slide,
              raised |-> FALSE]

\* f"Slide {idx + 1}: {warning}" for each warning of slide idx (1-based here).
PrefixWarnings(idx, warnings) ==
    [k \in 1..Len(warnings) |->
        "Slide " \o ToString(idx) \o ": " \o warnings[k]]

\* The loop of _process_file over enumerate(prs.slides), from slide idx on:
\* the slides as they are left, the warnings, the slides visited in order, and
\* whether an exception left the loop.
RECURSIVE SlideLoop(_, _, _, _, _)
SlideLoop(slides, idx, cfg, all_warnings, visited) ==
    IF idx > Len(slides)
    THEN [slides |-> slides, all_warnings |-> all_warnings,
          visited |-> visited, raised |-> FALSE]
    ELSE LET r == process_slide_safe(slides[idx], cfg)
             slides1 == [slides EXCEPT ![idx] = r.slide]
         IN  IF r.raised
             THEN [slides |-> slides1, all_warnings |-> all_warnings,
                   visited |-> Append(visited, idx), raised |-> TRUE]
             ELSE SlideLoop(slides1, idx + 1, cfg,
                            all_warnings \o PrefixWarnings(idx, r.warnings),
                            Append(visited, idx))

\* slide_out before the call, after it returned, after it raised.
SlideOut(state, warnings, processed) ==
    [state |-> state, warnings |-> warnings, processed |-> processed]
NoOut == SlideOut("none", <<>>, <<>>)

SlideIdle ==
    /\ slide_before = NoSlide
    /\ slide = NoSlide
    /\ slide_config = <<>>
    /\ slide_out = NoOut

\* deck_trace before the call.
NoTrace == [slides |-> <<>>, visited |-> <<>>, cfg |-> <<>>]

DocIdle ==
    /\ deck = <<>>
    /\ deck_config = <<>>
    /\ deck_pc = "idle"
    /\ deck_result = <<>>
    /\ deck_trace = NoTrace

\* A contrast ratio num / den; NoRatio before the call.
Ratio(num, den) == [num |-> num, den |-> den]
NoRatio == Ratio(0, 1)

ValIdle ==
    /\ val_colors = <<>>
    /\ val_pc = "idle"
    /\ val_ratio = NoRatio
    /\ val_warnings = <<>>

CliIdle ==
    /\ cli_args = <<>>
    /\ cli_pc = "idle"
    /\ cli_config = <<>>
    /\ cli_error = None
    /\ cli_exit = -1
    /\ cli_submitted = FALSE

MediaIdle == ImageIdle /\ SlideIdle /\ DocIdle /\ ValIdle /\ CliIdle

\* ------------------------------------------------------------ contrast validation

\* gamma_correct(c / 255.0) for c = 0..255, in millionths: c / 12.92 up to
\* 0.03928 and ((c + 0.055) / 1.055) ** 2.4 above it.
GammaTable ==
    <<
       0, 304, 607, 911, 1214, 1518, 1821, 2125,
       2428, 2732, 3035, 3347, 3677, 4025, 4391, 4777,
       5182, 5605, 6049, 6512, 6995, 7499, 8023, 8568,
       9134, 9721, 10330, 10960, 11612, 12286, 12983, 13702,
       14444, 15209, 15996, 16807, 17642, 18500, 19382, 20289,
       21219, 22174, 23153, 24158, 25187, 26241, 27321, 28426,
       29557, 30713, 31896, 33105, 34340, 35601, 36889, 38204,
       39546, 40915, 42311, 43735, 45186, 46665, 48172, 49707,
       51269, 52861, 54480, 56128, 57805, 59511, 61246, 63010,
       64803, 66626, 68478, 70360, 72272, 74214, 76185, 78187,
       80220, 82283, 84376, 86500, 88656, 90842, 93059, 95307,
       97587, 99899, 102242, 104616, 107023, 109462, 111932, 114435,
       116971, 119538, 122139, 124772, 127438, 130136, 132868, 135633,
       138432, 141263, 144128, 147027, 149960, 152926, 155926, 158961,
       162029, 165132, 168269, 171441, 174647, 177888, 181164, 184475,
       187821, 191202, 194618, 198069, 201556, 205079, 208637, 212231,
       215861, 219526, 223228, 226966, 230740, 234551, 238398, 242281,
       246201, 250158, 254152, 258183, 262251, 266356, 270498, 274677,
       278894, 283149, 287441, 291771, 296138, 300544, 304987, 309469,
       313989, 318547, 323143, 327778, 332452, 337164, 341914, 346704,
       351533, 356400, 361307, 366253, 371238, 376262, 381326, 386429,
       391572, 396755, 401978, 407240, 412543, 417885, 423268, 428690,
       434154, 439657, 445201, 450786, 456411, 462077, 467784, 473531,
       479320, 485150, 491021, 496933, 502886, 508881, 514918, 520996,
       527115, 533276, 539479, 545724, 552011, 558340, 564712, 571125,
       577580, 584078, 590619, 597202, 603827, 610496, 617207, 623960,
       630757, 637597, 644480, 651406, 658375, 665387, 672443, 679542,
       686685, 693872, 701102, 708376, 715694, 723055, 730461, 737910,
       745404, 752942, 760525, 768151, 775822, 783538, 791298, 799103,
       806952, 814847, 822786, 830770, 838799, 846873, 854993, 863157,
       871367, 879622, 887923, 896269, 904661, 913099, 921582, 930111,
       938686, 947307, 955973, 964686, 973445, 982251, 991102, 1000000
    >>

gamma_correct(c) == GammaTable[c + 1]

\* weight * r / 100 without leaving 32 bits (weight in 1/10000, r in
\* millionths): the product in units of 1e-8.
Weighted(weight, r) == weight * (r \div 100) + (weight * (r % 100)) \div 100

\* calculate_luminance: 0.2126 r + 0.7152 g + 0.0722 b of the gamma-corrected
\* channels, in units of 1e-8; it is 0 for black only.
calculate_luminance(color) ==
    Weighted(2126, gamma_correct(color[1]))
    + Weighted(7152, gamma_correct(color[2]))
    + Weighted(722, gamma_correct(color[3]))

\* 0.05 in units of 1e-8.
Flare == 5000000

\* calculate_contrast_ratio: 21.0 when the darker luminance is 0, otherwise
\* (lighter + 0.05) / (darker + 0.05).
calculate_contrast_ratio(foreground, background) ==
    LET lum_fg == calculate_luminance(foreground)
        lum_bg == calculate_luminance(background)
        lighter == IF lum_fg >= lum_bg THEN lum_fg ELSE lum_bg
        darker == IF lum_fg >= lum_bg THEN lum_bg ELSE lum_fg
    IN  IF darker = 0 THEN Ratio(21, 1)
        ELSE Ratio(lighter + Flare, darker + Flare)

\* ratio < a / b.
RatioBelow(r, a, b) == r.num * b < a * r.den

VerySimilar == "Colors are very similar"
BelowAA == "WCAG AA recommends at least 4.5:1"

\* validate_color_contrast: one warning below 1.5, another below 4.5.
validate_color_contrast(foreground, background) ==
    LET contrast == calculate_contrast_ratio(foreground, background)
    IN  IF RatioBelow(contrast, 3, 2) THEN <<VerySimilar>>
        ELSE IF RatioBelow(contrast, 9, 2) THEN <<BelowAA>>
        ELSE <<>>

\* ------------------------------------------------------------ configuration

\* InversionConfig(...) with the dataclass's fields.
InversionConfig(fg, bg, suffix, folder, invert, quality) ==
    [foreground_color |-> fg, background_color |-> bg, file_suffix |-> suffix,
     folder_name |-> folder, invert_images |-> invert, jpeg_quality |-> quality]

\* Default of InversionConfig.jpeg_quality.
DefaultJpegQuality == 85

\* _config_to_payload: the five fields sent to a worker.
_config_to_payload(c) ==
    <<c.foreground_color, c.background_color, c.file_suffix, c.folder_name,
      c.invert_images>>

\* _config_from_payload: the worker's InversionConfig; jpeg_quality is not in
\* the payload and takes the dataclass default.
_config_from_payload(payload) ==
    InversionConfig(payload[1], payload[2], payload[3], payload[4], payload[5],
                    DefaultJpegQuality)

\* ---- hex colours (models/config.py)

\* A hex colour argument is a sequence of one-character strings.
HexDigits == {"0", "F"}

\* int(c, 16) of one hexadecimal digit.
HexValue(c) == IF c = "F" THEN 15 ELSE 0

Whitespace == {" "}

\* str.lstrip(chars): every leading character of the set is removed.
RECURSIVE lstrip(_, _)
lstrip(s, chars) ==
    IF s # <<>> /\ Head(s) \in chars THEN lstrip(Tail(s), chars) ELSE s

RECURSIVE rstrip(_, _)
rstrip(s, chars) ==
    IF s # <<>> /\ Last(s) \in chars THEN rstrip(Front(s), chars) ELSE s

RECURSIVE HexNumber(_)
HexNumber(digits) ==
    IF digits = <<>> THEN 0
    ELSE 16 * HexNumber(Front(digits)) + HexValue(Last(digits))

IntError == [ok |-> FALSE, value |-> 0]

\* int(s, 16): surrounding whitespace is ignored, one sign is allowed, and
\* what remains must be hexadecimal digits, at least one.
int16(s) ==
    LET t == rstrip(lstrip(s, Whitespace), Whitespace)
        signed == t # <<>> /\ Head(t) \in {"+", "-"}
        digits == IF signed THEN Tail(t) ELSE t
        n == HexNumber(digits)
    IN  IF digits = <<>> \/ \E i \in 1..Len(digits) : digits[i] \notin HexDigits
        THEN IntError
        ELSE [ok |-> TRUE, value |-> IF signed /\ Head(t) = "-" THEN 0 - n ELSE n]

\* What hex_to_rgb and from_hex give: the colour or configuration, or the
\* exception raised.
Value(v) == [raised |-> None, value |-> v]
Raises(e) == [raised |-> e, value |-> <<>>]

\* pptx RGBColor(r, g, b): ValueError unless the three are in 0..255.
RGBColor(r, g, b) ==
    IF \E v \in {r, g, b} : v < 0 \/ v > MaxChannel
    THEN Raises("ValueError")
    ELSE Value(<<r, g, b>>)

\* hex_to_rgb(hex_color)
hex_to_rgb(hex_color) ==
    IF hex_color = <<>> THEN Raises("ValueError")
    ELSE LET h == lstrip(hex_color, {"#"})
         IN  IF Len(h) # 6 THEN Raises("ValueError")
             ELSE LET r == int16(SubSeq(h, 1, 2))
                      g == int16(SubSeq(h, 3, 4))
                      b == int16(SubSeq(h, 5, 6))
                  IN  IF ~r.ok \/ ~g.ok \/ ~b.ok THEN Raises("ValueError")
                      ELSE RGBColor(r.value, g.value, b.value)

\* InversionConfig.from_hex: the foreground is parsed first.
from_hex(fg_hex, bg_hex, suffix, folder, invert, quality) ==
    LET fg == hex_to_rgb(fg_hex)
        bg == hex_to_rgb(bg_hex)
    IN  IF fg.raised # None THEN Raises(fg.raised)
        ELSE IF bg.raised # None THEN Raises(bg.raised)
        ELSE Value(InversionConfig(fg.value, bg.value, suffix, folder,
                                      invert, quality))

\* ------------------------------------------------------------ one document

ProcessingResult(filename, success, output_data, warnings) ==
    [filename |-> filename, success |-> success, output_data |-> output_data,
     warnings |-> warnings]

\* The slides of a loadable document: one slide that processes cleanly, one
\* slide on which process_slide raises, or the slides the document lists.
CleanSlide ==
    Slide(NoFill, FALSE,
          <<Shape(1, "text", <<NoColor>>, FALSE, <<0, 0, 1, 1>>, <<"blob", 1>>,
                  "none")>>)
RaisingSlide ==
    Slide(NoFill, FALSE,
          <<Shape(1, "unknown", <<>>, FALSE, <<0, 0, 1, 1>>, <<"blob", 1>>,
                  "none")>>)
SlidesOf(file_data) ==
    CASE file_data.kind = "clean" -> <<CleanSlide>>
      [] file_data.kind = "warns" -> <<RaisingSlide>>
      [] OTHER -> file_data.slides

\* The pass of _process_file over the slides of a loadable document.
ProcessSlides(file_data, cfg) == SlideLoop(SlidesOf(file_data), 1, cfg, <<>>, <<>>)

\* Warnings of the slides of a loadable document, each prefixed "Slide i: ".
SlideWarnings(file_data, cfg) == ProcessSlides(file_data, cfg).all_warnings

\* prs.save(): the bytes of the processed document, never empty.
SavedBytes(file_data) == <<"pptx", file_data.id>>

\* _process_file whose except branch returns the failed result without its
\* warning.
_process_file_nowarning(file_data, filename, payload) ==
    LET cfg == _config_from_payload(payload)
    IN  IF file_data.kind = "corrupt"
        THEN ProcessingResult(filename, FALSE, NoData, <<>>)
        ELSE ProcessingResult(
                 SplitextRoot(filename) \o <<" ", cfg.file_suffix, ".pptx">>,
                 TRUE, SavedBytes(file_data), SlideWarnings(file_data, cfg))

\* _process_file that saves under the original filename, without the suffix.
_process_file_nosuffix(file_data, filename, payload) ==
    LET cfg == _config_from_payload(payload)
    IN  IF file_data.kind = "corrupt"
        THEN ProcessingResult(filename, FALSE, NoData,
                              <<"Processing failed: Package not found">>)
        ELSE ProcessingResult(filename, TRUE, SavedBytes(file_data),
                              SlideWarnings(file_data, cfg))

\* _process_file: Presentation(bytes) raises on bytes that are no presentation
\* and the except branch turns that, like any exception of the slide loop,
\* into a failed result under the original filename; otherwise the result is
\* named "<root> <suffix>.pptx" and carries the warnings of the slides.
_process_file(file_data, filename, payload) ==
    LET cfg == _config_from_payload(payload)
    IN  IF file_data.kind = "corrupt"
        THEN ProcessingResult(filename, FALSE, NoData,
                              <<"Processing failed: Package not found">>)
        ELSE IF ProcessSlides(file_data, cfg).raised
        THEN ProcessingResult(filename, FALSE, NoData,
                              <<"Processing failed: error">>)
        ELSE ProcessingResult(
                 SplitextRoot(filename) \o <<" ", cfg.file_suffix, ".pptx">>,
                 TRUE, SavedBytes(file_data), SlideWarnings(file_data, cfg))

\* The result process_files builds when fut.result() raises.
FutureFailed(filename, e) ==
    ProcessingResult(filename, FALSE, NoData, <<"Unexpected error: " \o e>>)

\* ------------------------------------------------------------ batch result

\* b"": no bytes at all, which no archive reader accepts.
EmptyBytes == [is_zipfile |-> FALSE, entries |-> <<>>]

\* Truthiness of result.output_data: neither None nor b"".
Truthy(output_data) == output_data # NoData /\ output_data # <<>>

RECURSIVE ZipEntries(_)
ZipEntries(rs) ==
    IF rs = <<>> THEN <<>>
    ELSE LET r == Head(rs)
         IN  (IF r.success /\ Truthy(r.output_data)
              THEN <<[name |-> r.filename, data |-> r.output_data]>>
              ELSE <<>>) \o ZipEntries(Tail(rs))

RECURSIVE Reverse(_)
Reverse(sq) == IF sq = <<>> THEN <<>> ELSE Append(Reverse(Tail(sq)), Head(sq))

\* _create_output_zip_from_results writing the entries last result first.
_create_output_zip_reversed(rs) ==
    [is_zipfile |-> TRUE, entries |-> Reverse(ZipEntries(rs))]

\* _create_output_zip_from_results: one writestr per successful result, in
\* the order of results.
_create_output_zip_from_results(rs) ==
    [is_zipfile |-> TRUE, entries |-> ZipEntries(rs)]

BatchResult(rs, output_zip, total, successful) ==
    [results |-> rs, output_zip |-> output_zip, total_files |-> total,
     successful_files |-> successful]

RECURSIVE all_warnings_of(_)
all_warnings_of(rs) ==
    IF rs = <<>> THEN <<>>
    ELSE LET r == Head(rs)
         IN  [i \in 1..Len(r.warnings) |-> <<r.filename, r.warnings[i]>>]
             \o all_warnings_of(Tail(rs))

\* BatchResult.all_warnings: f"{result.filename}: {warning}", as the pair
\* <<filename, warning>>.
all_warnings(b) == all_warnings_of(b.results)

\* sum(1 for r in results if r.success)
CountSuccess(rs) == Cardinality({i \in 1..Len(rs) : rs[i].success})

\* ------------------------------------------------------------ orchestration

total_files == Len(files_to_process)

Min(a, b) == IF a <= b THEN a ELSE b
Max(a, b) == IF a >= b THEN a ELSE b

\* _get_max_workers with the cap taken as a floor.
_get_max_workers_uncapped(cpu) == Max(1, Max(2, IF cpu = 0 THEN 1 ELSE cpu))

\* _get_max_workers
_get_max_workers(cpu) == Max(1, Min(2, IF cpu = 0 THEN 1 ELSE cpu))

max_workers == _get_max_workers(cpu_count)

FilenameOf(j) == files_to_process[j].filename

\* The part of the state submit_next works on.
SubmitState == [iterator |-> iterator, futures |-> futures, fstate |-> fstate,
                submits |-> submits, raised |-> FALSE]

\* submit_next that draws two jobs from the iterator and submits the first.
submit_next_skip(st) ==
    IF st.raised \/ st.iterator >= total_files THEN st
    ELSE LET j == st.iterator + 1
         IN  IF broken
             THEN [st EXCEPT !.iterator = j, !.raised = TRUE]
             ELSE [st EXCEPT !.iterator = j + 1,
                             !.futures = @ \cup {j},
                             !.fstate = [@ EXCEPT ![j] = "running"],
                             !.submits = [@ EXCEPT ![j] = @ + 1]]

\* submit_next that never submits.
submit_next_never(st) == st

\* submit_next: next(iterator), or False at StopIteration; executor.submit
\* raises BrokenProcessPool once the pool is broken.
submit_next(st) ==
    IF st.raised \/ st.iterator >= total_files THEN st
    ELSE LET j == st.iterator + 1
         IN  IF broken
             THEN [st EXCEPT !.iterator = j, !.raised = TRUE]
             ELSE [st EXCEPT !.iterator = j,
                             !.futures = @ \cup {j},
                             !.fstate = [@ EXCEPT ![j] = "running"],
                             !.submits = [@ EXCEPT ![j] = @ + 1]]

\* for _ in range(n): if not submit_next(...): break
RECURSIVE SubmitLoop(_, _)
SubmitLoop(n, st) == IF n = 0 THEN st ELSE SubmitLoop(n - 1, submit_next(st))

ApplySubmit(st) ==
    /\ iterator' = st.iterator
    /\ futures' = st.futures
    /\ fstate' = st.fstate
    /\ submits' = st.submits

\* The result the orchestrator takes from a completed future.
ResultOf(j) ==
    CASE fstate[j] = "result" ->
             _process_file(files_to_process[j].data, FilenameOf(j),
                           _config_to_payload(config))
      [] fstate[j] = "error" -> FutureFailed(FilenameOf(j), "worker error")
      [] OTHER -> FutureFailed(FilenameOf(j), "BrokenProcessPool")

\* progress_callback called before completed is incremented.
ProgressCall_stale(n, filename, recorded) ==
    [current |-> n - 1, total |-> total_files, filename |-> filename,
     recorded |-> recorded]

\* progress_callback(completed, total_files, filename); recorded is the number
\* of results already recorded (or yielded) when the call is made.
ProgressCall(n, filename, recorded) ==
    [current |-> n, total |-> total_files, filename |-> filename,
     recorded |-> recorded]

\* ---- the orchestrating thread

\* total_files == 0: process_files returns an empty BatchResult with b"",
\* the streaming generator just returns.
ReturnEmpty ==
    /\ pc = "start"
    /\ total_files = 0
    /\ pc' = "done"
    /\ batch' = IF streaming THEN batch ELSE BatchResult(<<>>, EmptyBytes, 0, 0)
    /\ UNCHANGED <<files_to_process, config, cpu_count, use_threads, streaming,
                   has_callback, iterator, futures, fstate, broken, done,
                   results, order, completed, calls, submits>>
    /\ UNCHANGED <<zipVars, mediaVars>>

\* The first max_workers submissions.
SubmitInitial ==
    /\ pc = "start"
    /\ total_files > 0
    /\ ApplySubmit(SubmitLoop(max_workers, SubmitState))
    /\ pc' = "loop"
    /\ UNCHANGED <<files_to_process, config, cpu_count, use_threads, streaming,
                   has_callback, broken, done, results, order, completed,
                   calls, batch>>
    /\ UNCHANGED <<zipVars, mediaVars>>

\* wait(futures.keys(), return_when=FIRST_COMPLETED): blocks until a future
\* is done and returns every future that is done by then.
Wait ==
    /\ pc = "loop"
    /\ futures # {}
    /\ LET D == {f \in futures : fstate[f] # "running"}
       IN  /\ D # {}
           /\ done' = D
    /\ pc' = "collect"
    /\ UNCHANGED <<files_to_process, config, cpu_count, use_threads, streaming,
                   has_callback, iterator, futures, fstate, broken, results,
                   order, completed, calls, submits, batch>>
    /\ UNCHANGED <<zipVars, mediaVars>>

\* One iteration of `for fut in done` (a set: any order): pop the future,
\* take its result or build the failed one, record or yield it, count it,
\* report progress, submit the next job.
CollectOne(f) ==
    /\ pc = "collect"
    /\ f \in done
    /\ LET filename == FilenameOf(f)
           result == ResultOf(f)
           st == submit_next([SubmitState EXCEPT !.futures = @ \ {f}])
       IN  /\ results' = Append(results, result)
           /\ order' = Append(order, f)
           /\ completed' = completed + 1
           /\ calls' = IF has_callback
                       THEN Append(calls, ProgressCall(completed + 1, filename,
                                                       Len(results) + 1))
                       ELSE calls
           /\ ApplySubmit(st)
           /\ done' = done \ {f}
           /\ pc' = IF st.raised THEN "raised"
                    ELSE IF done \ {f} = {} THEN "loop" ELSE "collect"
    /\ UNCHANGED <<files_to_process, config, cpu_count, use_threads, streaming,
                   has_callback, broken, batch>>
    /\ UNCHANGED <<zipVars, mediaVars>>

\* futures is empty: leave the executor, build the archive and return.
Finish ==
    /\ pc = "loop"
    /\ futures = {}
    /\ pc' = "done"
    /\ batch' = IF streaming THEN batch
                ELSE BatchResult(results,
                                 _create_output_zip_from_results(results),
                                 total_files, CountSuccess(results))
    /\ UNCHANGED <<files_to_process, config, cpu_count, use_threads, streaming,
                   has_callback, iterator, futures, fstate, broken, done,
                   results, order, completed, calls, submits>>
    /\ UNCHANGED <<zipVars, mediaVars>>

\* ---- the workers

WorkerUnchanged ==
    /\ UNCHANGED <<files_to_process, config, cpu_count, use_threads, streaming,
                   has_callback, pc, iterator, futures, done, results, order,
                   completed, calls, submits, batch>>
    /\ UNCHANGED <<zipVars, mediaVars>>

\* A worker returns _process_file's ProcessingResult (successful or failed).
WorkerReturn(j) ==
    /\ j \in futures
    /\ fstate[j] = "running"
    /\ fstate' = [fstate EXCEPT ![j] = "result"]
    /\ UNCHANGED broken
    /\ WorkerUnchanged

\* An error escapes the worker's call: the future holds the exception, the
\* executor stays usable.
WorkerRaise(j) ==
    /\ j \in futures
    /\ fstate[j] = "running"
    /\ fstate' = [fstate EXCEPT ![j] = "error"]
    /\ UNCHANGED broken
    /\ WorkerUnchanged

\* A worker process of a ProcessPoolExecutor dies: the pool is broken, every
\* future still running gets BrokenProcessPool.
PoolBreak ==
    /\ ~use_threads
    /\ ~broken
    /\ \E j \in futures : fstate[j] = "running"
    /\ broken' = TRUE
    /\ fstate' = [j \in DOMAIN fstate |->
                    IF fstate[j] = "running" THEN "broken" ELSE fstate[j]]
    /\ WorkerUnchanged

\* ------------------------------------------------------------ specification

\* Filename of the i-th job: "a.pptx", "b.pptx", "a.pptx", ... (flattening a
\* container's directories can give two jobs the same name).
JobName(i) == <<(IF i % 2 = 1 THEN "a" ELSE "b"), ".pptx">>

Jobs(n, kinds) ==
    [i \in 1..n |-> [data |-> [id |-> i, kind |-> kinds[i]],
                     filename |-> JobName(i)]]

DefaultConfig(suffix) ==
    InversionConfig(<<255, 255, 255>>, <<0, 0, 0>>, suffix,
                    "Inverted Presentations", TRUE, DefaultJpegQuality)

ZipIdle ==
    /\ zip_ok = TRUE
    /\ namelist = <<>>
    /\ zip_done = {}
    /\ extracted = <<>>
    /\ extracted_fh = <<>>

Init ==
    /\ \E n \in 0..MaxJobs : \E kinds \in [1..n -> DocKinds] :
          /\ files_to_process = Jobs(n, kinds)
          /\ fstate = [j \in 1..n |-> "none"]
          /\ submits = [j \in 1..n |-> 0]
    /\ config \in {DefaultConfig(s) : s \in Suffixes}
    /\ cpu_count \in CpuCounts
    /\ use_threads \in BOOLEAN
    /\ streaming \in BOOLEAN
    /\ has_callback \in BOOLEAN
    /\ pc = "start"
    /\ iterator = 0
    /\ futures = {}
    /\ broken = FALSE
    /\ done = {}
    /\ results = <<>>
    /\ order = <<>>
    /\ completed = 0
    /\ calls = <<>>
    /\ batch = None
    /\ ZipIdle
    /\ MediaIdle

Next ==
    \/ ReturnEmpty
    \/ SubmitInitial
    \/ Wait
    \/ \E f \in done : CollectOne(f)
    \/ Finish
    \/ \E j \in futures : WorkerReturn(j)
    \/ \E j \in futures : WorkerRaise(j)
    \/ PoolBreak

Spec == Init /\ [][Next]_vars

\* Steps of the thread that runs process_files.
MainNext ==
    \/ ReturnEmpty
    \/ SubmitInitial
    \/ Wait
    \/ \E f \in done : CollectOne(f)
    \/ Finish

\* Steps of the executor's workers.
WorkerNext ==
    \/ \E j \in futures : WorkerReturn(j)
    \/ \E j \in futures : WorkerRaise(j)
    \/ PoolBreak

\* process_files alone, called with a progress callback: the calling thread
\* keeps running, and a job handed to a worker ends (it returns, raises, or
\* its process dies).
LiveInit == Init /\ ~streaming /\ has_callback

LiveSpec ==
    /\ LiveInit
    /\ [][Next]_vars
    /\ WF_vars(MainNext)
    /\ WF_vars(WorkerNext)

\* ------------------------------------------------------------ archive expansion

\* Entry names an uploaded container may hold.
EntryNames ==
    { <<"deck", ".pptx">>,
      <<"dir", "/", "deck", ".pptx">>,
      <<"dir", "/">>,
      <<"notes", ".txt">>,
      <<"__MACOSX", "/", "._", "deck", ".pptx">>,
      <<"._", "deck", ".pptx">>,
      <<"dir", "/", "._", "deck", ".pptx">>,
      <<"Deck", ".PPTX">> }

\* zf.read(name): the bytes stored under name.
ZipRead(name) == [id |-> name, kind |-> "clean"]

\* inverter._extract_pptx_from_zip, the loop over zf.namelist().
RECURSIVE ExtractInverterLoop(_)
ExtractInverterLoop(names) ==
    IF names = <<>> THEN <<>>
    ELSE LET name == Head(names)
             filename == Basename(name)
         IN  (IF EndsWith(name, ".pptx") /\ ~StartsWith(name, "__MACOSX")
                 /\ filename # <<>>
              THEN <<[data |-> ZipRead(name), filename |-> filename]>>
              ELSE <<>>) \o ExtractInverterLoop(Tail(names))

\* inverter._extract_pptx_from_zip: [] on BadZipFile.
_extract_pptx_from_zip(ok, names) ==
    IF ok THEN ExtractInverterLoop(names) ELSE <<>>

\* file_handler._extract_from_zip, the loop over zf.namelist().
RECURSIVE ExtractFileHandlerLoop(_)
ExtractFileHandlerLoop(names) ==
    IF names = <<>> THEN <<>>
    ELSE LET name == Head(names)
             filename == Basename(name)
         IN  (IF StartsWith(name, "__MACOSX") \/ StartsWith(name, "._")
              THEN <<>>
              ELSE IF EndsWith(Lower(name), ".pptx") /\ filename # <<>>
                   THEN <<[data |-> ZipRead(name), filename |-> filename]>>
                   ELSE <<>>) \o ExtractFileHandlerLoop(Tail(names))

\* file_handler._extract_from_zip: [] on BadZipFile.
_extract_from_zip(ok, names) ==
    IF ok THEN ExtractFileHandlerLoop(names) ELSE <<>>

BatchIdle ==
    /\ files_to_process = <<>>
    /\ fstate = <<>>
    /\ submits = <<>>
    /\ config = DefaultConfig("(inverted)")
    /\ cpu_count = 1
    /\ use_threads = FALSE
    /\ streaming = FALSE
    /\ has_callback = FALSE
    /\ pc = "idle"
    /\ iterator = 0
    /\ futures = {}
    /\ broken = FALSE
    /\ done = {}
    /\ results = <<>>
    /\ order = <<>>
    /\ completed = 0
    /\ calls = <<>>
    /\ batch = None

RECURSIVE SeqsUpTo(_, _)
SeqsUpTo(S, n) ==
    IF n = 0 THEN {<<>>}
    ELSE LET R == SeqsUpTo(S, n - 1)
         IN  R \cup {Append(r, x) : r \in R, x \in S}

ZipInit ==
    /\ BatchIdle
    /\ zip_ok \in BOOLEAN
    /\ namelist \in SeqsUpTo(EntryNames, MaxEntries)
    /\ (~zip_ok => namelist = <<>>)
    /\ zip_done = {}
    /\ extracted = <<>>
    /\ extracted_fh = <<>>
    /\ MediaIdle

\* process_files hands an uploaded .zip to inverter._extract_pptx_from_zip.
ExtractInverter ==
    /\ "inverter" \notin zip_done
    /\ extracted' = _extract_pptx_from_zip(zip_ok, namelist)
    /\ zip_done' = zip_done \cup {"inverter"}
    /\ UNCHANGED <<zip_ok, namelist, extracted_fh>>
    /\ UNCHANGED <<batchVars, mediaVars>>

\* extract_pptx_files hands a .zip source to file_handler._extract_from_zip.
ExtractFileHandler ==
    /\ "file_handler" \notin zip_done
    /\ extracted_fh' = _extract_from_zip(zip_ok, namelist)
    /\ zip_done' = zip_done \cup {"file_handler"}
    /\ UNCHANGED <<zip_ok, namelist, extracted>>
    /\ UNCHANGED <<batchVars, mediaVars>>

ZipNext ==
    \/ ExtractInverter
    \/ ExtractFileHandler

ZipSpec == ZipInit /\ [][ZipNext]_vars

\* ------------------------------------------------------------ image passes

MaxPixels == 2

\* One-pixel RGB images whose three bands each run through every value.
GradientImages ==
    {Img("RGB", <<1, 1>>, <<<<v, MaxChannel - v, (v + 128) % 256>>>>,
         NoKey, <<>>) : v \in 0..MaxChannel}

NearWhite == <<255, 255, 254>>
Alphas == {0, 128, 255}
Palette == <<<<0, 0, 0, 255>>, <<255, 255, 255, 0>>, <<255, 0, 0, 128>>>>

Rows(S) == {d \in SeqsUpTo(S, MaxPixels) : Len(d) >= 1}

\* Small images of every kind the mode dispatch tells apart.
ModeImages ==
    {Img("RGB", <<Len(d), 1>>, d, k, <<>>) :
        d \in Rows({Black, White, NearWhite}), k \in {NoKey, White}}
    \cup {Img("RGBA", <<Len(d), 1>>, d, NoKey, <<>>) :
        d \in Rows({<<c[1], c[2], c[3], a>> : c \in {Black, White},
                                              a \in Alphas})}
    \cup {Img("P", <<Len(d), 1>>, d, NoKey, Palette) :
        d \in Rows({<<i>> : i \in 1..Len(Palette)})}
    \cup {Img("L", <<Len(d), 1>>, d, NoKey, <<>>) :
        d \in Rows({<<0>>, <<128>>, <<255>>})}
    \cup {Img("LA", <<Len(d), 1>>, d, NoKey, <<>>) :
        d \in Rows({<<g, a>> : g \in {0, 255}, a \in {0, 255}})}

ImageInit ==
    /\ BatchIdle
    /\ ZipIdle
    /\ SlideIdle
    /\ DocIdle
    /\ ValIdle
    /\ CliIdle
    /\ source \in GradientImages \cup ModeImages
    /\ image = source
    /\ passes = <<>>

\* apply_color_transform on the source image.
FirstPass ==
    /\ passes = <<>>
    /\ \E t \in Targets :
          /\ image' = apply_color_transform(image, t[1], t[2])
          /\ passes' = <<t>>
    /\ UNCHANGED source
    /\ UNCHANGED <<batchVars, zipVars, slideVars, docVars, valVars, cliVars>>

\* apply_color_transform on the image the first pass returned.
SecondPass ==
    /\ Len(passes) = 1
    /\ \E t \in Targets :
          /\ image' = apply_color_transform(image, t[1], t[2])
          /\ passes' = Append(passes, t)
    /\ UNCHANGED source
    /\ UNCHANGED <<batchVars, zipVars, slideVars, docVars, valVars, cliVars>>

ImageNext ==
    \/ FirstPass
    \/ SecondPass

ImageSpec == ImageInit /\ [][ImageNext]_vars

\* ------------------------------------------------------------ slide calls

MaxShapes == 3

OldRed == <<255, 0, 0>>
Navy == <<0, 0, 128>>
Yellow == <<255, 255, 0>>

\* What a shape of the input slide can be, apart from its place in the list.
ShapeChoices ==
    {[kind |-> "text", runs |-> r, text_fault |-> FALSE, fault |-> "none"] :
        r \in {<<OldRed>>, <<NoColor, OldRed>>}}
    \cup {[kind |-> "text", runs |-> <<OldRed>>, text_fault |-> TRUE,
           fault |-> "none"]}
    \cup {[kind |-> "picture", runs |-> <<>>, text_fault |-> FALSE,
           fault |-> f] : f \in {"none", "decode", "insert"}}
    \cup {[kind |-> k, runs |-> <<>>, text_fault |-> FALSE, fault |-> "none"] :
        k \in {"other", "unknown"}}

\* Every shape has its own position and size.
Geometry(i) == <<10 * i, 20 * i, 100 + i, 50 + i>>

Shapes(choices) ==
    [i \in 1..Len(choices) |->
        Shape(i, choices[i].kind, choices[i].runs, choices[i].text_fault,
              Geometry(i), <<"blob", i>>, choices[i].fault)]

Slides ==
    {Slide(b, f, Shapes(c)) :
        b \in {NoFill, [type |-> "solid", rgb |-> White]},
        f \in BOOLEAN,
        c \in SeqsUpTo(ShapeChoices, MaxShapes)}

SlideConfigs ==
    {InversionConfig(p[1], p[2], "(inverted)", "Inverted Presentations", inv,
                     DefaultJpegQuality) :
        p \in {<<White, Black>>, <<Yellow, Navy>>}, inv \in BOOLEAN}

SlideInit ==
    /\ BatchIdle
    /\ ZipIdle
    /\ ImageIdle
    /\ DocIdle
    /\ ValIdle
    /\ CliIdle
    /\ slide_before \in Slides
    /\ slide = slide_before
    /\ slide_config \in SlideConfigs
    /\ slide_out = NoOut

\* One call process_slide(slide, config).
ProcessSlide ==
    /\ slide_out.state = "none"
    /\ LET r == process_slide(slide, slide_config)
       IN  /\ slide' = r.slide
           /\ slide_out' = SlideOut(IF r.raised THEN "raised" ELSE "returned",
                                    r.warnings, r.processed)
    /\ UNCHANGED <<slide_before, slide_config>>
    /\ UNCHANGED <<batchVars, zipVars, imgVars, docVars, valVars, cliVars>>

SlideNext == ProcessSlide

SlideSpec == SlideInit /\ [][SlideNext]_vars

\* ------------------------------------------------------------ document calls

MaxSlides == 2

\* Slides of at most one shape.
DeckSlides ==
    {Slide(NoFill, f, Shapes(c)) :
        f \in BOOLEAN, c \in SeqsUpTo(ShapeChoices, 1)}

DeckName == <<"deck", ".pptx">>

Decks ==
    {[id |-> 1, kind |-> "deck", slides |-> ss] :
        ss \in SeqsUpTo(DeckSlides, MaxSlides)}
    \cup {[id |-> 1, kind |-> "corrupt", slides |-> <<>>]}

\* Values of --jpeg-quality, the default among them.
JpegQualities == {1, DefaultJpegQuality, 100}

\* The caller's configurations.
DeckConfigs ==
    {[c EXCEPT !.jpeg_quality = q] : c \in SlideConfigs, q \in JpegQualities}

DocInit ==
    /\ BatchIdle
    /\ ZipIdle
    /\ ImageIdle
    /\ SlideIdle
    /\ ValIdle
    /\ CliIdle
    /\ deck \in Decks
    /\ deck_config \in DeckConfigs
    /\ deck_pc = "start"
    /\ deck_result = <<>>
    /\ deck_trace = NoTrace

\* One call _process_file(file_data, filename, payload) in a worker.
ProcessFile ==
    /\ deck_pc = "start"
    /\ LET payload == _config_to_payload(deck_config)
           t == ProcessSlides(deck, _config_from_payload(payload))
       IN  /\ deck_result' = _process_file(deck, DeckName, payload)
           /\ deck_trace' =
                  [slides |-> IF deck.kind = "corrupt" THEN <<>> ELSE t.slides,
                   visited |-> IF deck.kind = "corrupt" THEN <<>> ELSE t.visited,
                   cfg |-> _config_from_payload(payload)]
    /\ deck_pc' = "done"
    /\ UNCHANGED <<deck, deck_config>>
    /\ UNCHANGED <<batchVars, zipVars, imgVars, slideVars, valVars, cliVars>>

DocNext == ProcessFile

DocSpec == DocInit /\ [][DocNext]_vars

\* ------------------------------------------------------------ validation calls

Grey(g) == <<g, g, g>>

\* Every grey, and the colours of the tests.
ValColors ==
    {Grey(g) : g \in 0..MaxChannel} \cup {OldRed, Navy, Yellow}

\* Pairs of one colour with itself, and pairs of a few colours.
ValPairs ==
    {<<x, x>> : x \in ValColors}
    \cup ({Black, Grey(1), Grey(33), Grey(100), Grey(101), Grey(200), White,
           OldRed, Navy, Yellow}
          \X {Black, Grey(33), Grey(101), White, Navy, Yellow})

ValInit ==
    /\ BatchIdle
    /\ ZipIdle
    /\ ImageIdle
    /\ SlideIdle
    /\ DocIdle
    /\ CliIdle
    /\ val_colors \in ValPairs
    /\ val_pc = "start"
    /\ val_ratio = NoRatio
    /\ val_warnings = <<>>

\* One call validate_color_contrast(foreground, background).
ValidateColors ==
    /\ val_pc = "start"
    /\ val_ratio' = calculate_contrast_ratio(val_colors[1], val_colors[2])
    /\ val_warnings' = validate_color_contrast(val_colors[1], val_colors[2])
    /\ val_pc' = "done"
    /\ UNCHANGED val_colors
    /\ UNCHANGED <<batchVars, zipVars, imgVars, slideVars, docVars, cliVars>>

ValNext == ValidateColors

ValSpec == ValInit /\ [][ValNext]_vars

\* ------------------------------------------------------------ command line

\* Two-character pieces of a colour argument, and one single character to
\* make odd lengths.
Pieces ==
    {<<"0", "0">>, <<"F", "F">>, <<"0", "G">>, <<"+", "F">>, <<"-", "F">>,
     <<"-", "0">>, <<" ", "F">>, <<"F">>}

MaxPieces == 3
MaxHashes == 2

RECURSIVE Flatten(_)
Flatten(ss) == IF ss = <<>> THEN <<>> ELSE Head(ss) \o Flatten(Tail(ss))

Hashes(k) == [i \in 1..k |-> "#"]

\* Colour arguments: up to MaxHashes '#' and up to MaxPieces pieces.
HexArgs ==
    {Hashes(k) \o Flatten(ps) : k \in 0..MaxHashes,
                                 ps \in SeqsUpTo(Pieces, MaxPieces)}

\* Defaults of --fg and --bg.
DefaultFg == <<"#", "F", "F", "F", "F", "F", "F">>
DefaultBg == <<"#", "0", "0", "0", "0", "0", "0">>

\* Parsed arguments: the number of .pptx files the patterns match, the two
\* colours and the JPEG quality.
CliArgs ==
    {[files |-> n, foreground |-> f, background |-> b, jpeg_quality |-> q] :
        n \in 0..1, f \in HexArgs, b \in {DefaultBg},
        q \in {DefaultJpegQuality}}
    \cup
    {[files |-> n, foreground |-> f, background |-> b, jpeg_quality |-> q] :
        n \in 0..1, f \in {DefaultFg, DefaultBg}, b \in HexArgs,
        q \in {DefaultJpegQuality}}

CliInit ==
    /\ BatchIdle
    /\ ZipIdle
    /\ ImageIdle
    /\ SlideIdle
    /\ DocIdle
    /\ ValIdle
    /\ cli_args \in CliArgs
    /\ cli_pc = "files"
    /\ cli_config = <<>>
    /\ cli_error = None
    /\ cli_exit = -1
    /\ cli_submitted = FALSE

\* expand_file_patterns: sys.exit(1) when no file matches.
CliFindFiles ==
    /\ cli_pc = "files"
    /\ IF cli_args.files = 0
       THEN /\ cli_error' = "SystemExit"
            /\ cli_exit' = 1
            /\ cli_pc' = "done"
       ELSE /\ cli_pc' = "config"
            /\ UNCHANGED <<cli_error, cli_exit>>
    /\ UNCHANGED <<cli_args, cli_config, cli_submitted>>
    /\ UNCHANGED <<batchVars, zipVars, imgVars, slideVars, docVars, valVars>>

\* main, "Validate colors": InversionConfig.from_hex in a try that turns a
\* ValueError into exit code 1.
CliFromHex ==
    /\ cli_pc = "config"
    /\ LET r == from_hex(cli_args.foreground, cli_args.background,
                         "(inverted)", "out", TRUE, cli_args.jpeg_quality)
       IN  IF r.raised = "ValueError"
           THEN /\ cli_error' = "ValueError"
                /\ cli_exit' = 1
                /\ cli_pc' = "done"
                /\ UNCHANGED cli_config
           ELSE /\ cli_config' = r.value
                /\ cli_pc' = "validate"
                /\ UNCHANGED <<cli_error, cli_exit>>
    /\ UNCHANGED <<cli_args, cli_submitted>>
    /\ UNCHANGED <<batchVars, zipVars, imgVars, slideVars, docVars, valVars>>

\* main, "Check color contrast": config.validate() outside any try.
\* InversionConfig has no attribute validate, so the call raises
\* AttributeError, the interpreter prints the traceback and exits with
\* status 1; the statements after it, process_files among them, never run.
CliValidate ==
    /\ cli_pc = "validate"
    /\ cli_error' = "AttributeError"
    /\ cli_exit' = 1
    /\ cli_pc' = "done"
    /\ UNCHANGED <<cli_args, cli_config, cli_submitted>>
    /\ UNCHANGED <<batchVars, zipVars, imgVars, slideVars, docVars, valVars>>

CliNext == CliFindFiles \/ CliFromHex \/ CliValidate

CliSpec == CliInit /\ [][CliNext]_vars

\* ------------------------------------------------------------ properties

JobIds == 1..total_files

KindOf(j) == files_to_process[j].data.kind

\* No future raised: every job's result came from _process_file.
NoFault == \A j \in JobIds : fstate[j] = "result"

\* The name _process_file gives the output of job j.
OutputName(j) ==
    SplitextRoot(FilenameOf(j)) \o <<" ", config.file_suffix, ".pptx">>

Returned == pc = "done" /\ ~streaming

SeqToSet(sq) == {sq[i] : i \in 1..Len(sq)}

Occurrences(sq, x) == Cardinality({i \in 1..Len(sq) : sq[i] = x})

\* C1: a batch of N jobs of which exactly one, K, cannot be loaded returns
\* total_files = N and successful_files = N-1, a warning prefixed with K's
\* filename, and an archive holding the output of each of the other jobs.
C1_OneCorruptJob ==
    (Returned /\ NoFault) =>
        \A K \in JobIds :
            (KindOf(K) = "corrupt"
             /\ \A j \in JobIds \ {K} : KindOf(j) # "corrupt")
            => /\ batch.total_files = total_files
               /\ batch.successful_files = total_files - 1
               /\ \E w \in SeqToSet(all_warnings(batch)) : w[1] = FilenameOf(K)
               /\ \A j \in JobIds \ {K} :
                     \E e \in SeqToSet(batch.output_zip.entries) :
                         e.data = SavedBytes(files_to_process[j].data)
               /\ \A e \in SeqToSet(batch.output_zip.entries) :
                     e.data # SavedBytes(files_to_process[K].data)

C1_Witness ==
    /\ Returned /\ NoFault
    /\ total_files = 3
    /\ KindOf(2) = "corrupt" /\ KindOf(1) # "corrupt" /\ KindOf(3) # "corrupt"
    /\ batch.successful_files = 2

\* C2: when a future raises, process_files does not raise, the job gets a
\* failed result with a warning, and every remaining job is still submitted
\* and collected.
C2_FutureFailureIsolated ==
    /\ pc # "raised"
    /\ \A k \in 1..Len(order) :
          fstate[order[k]] \in {"error", "broken"} =>
              /\ ~results[k].success
              /\ results[k].warnings # <<>>
    /\ pc = "done" => \A j \in JobIds : submits[j] = 1 /\ j \in SeqToSet(order)

\* C3: the number of jobs submitted and not yet collected never exceeds the
\* worker count max(1, min(2, cpu_count)), which is at most 2, in
\* process_files and in process_files_streaming.
C3_InFlightBounded ==
    /\ Cardinality(futures) <= max_workers
    /\ max_workers = Max(1, Min(2, IF cpu_count = 0 THEN 1 ELSE cpu_count))
    /\ Cardinality(futures) <= 2

C3_Witness ==
    /\ Cardinality(futures) = 2
    /\ completed >= 1
    /\ iterator = total_files
    /\ total_files = 3
    /\ cpu_count = 4

C5_EventuallyReturns ==
    /\ <>(pc = "done" \/ broken)
    /\ [](pc = "done" => iterator = total_files /\ futures = {})

C5_Witness ==
    /\ Returned
    /\ ~broken
    /\ total_files = 3
    /\ \E j \in JobIds : fstate[j] = "error"
    /\ batch.total_files = 3

IdentityOrder == [i \in 1..total_files |-> i]

C8_ArchiveContents ==
    /\ pc # "done" => batch = None
    /\ Returned =>
          LET ok == SelectSeq(order, LAMBDA j : fstate[j] = "result"
                                              /\ KindOf(j) # "corrupt")
              entries == batch.output_zip.entries
          IN  /\ completed = total_files /\ futures = {}
              /\ Len(entries) = Len(ok)
              /\ Len(entries) = batch.successful_files
              /\ \A i \in 1..Len(ok) :
                    /\ entries[i].name = OutputName(ok[i])
                    /\ entries[i].data = SavedBytes(files_to_process[ok[i]].data)
              /\ \A k \in 1..Len(order) :
                    ~batch.results[k].success =>
                        /\ batch.results[k].warnings # <<>>
                        /\ batch.results[k].filename = FilenameOf(order[k])
                        /\ \A i \in 1..Len(batch.results[k].warnings) :
                              <<FilenameOf(order[k]), batch.results[k].warnings[i]>>
                                  \in SeqToSet(all_warnings(batch))

C8_Witness ==
    /\ Returned
    /\ total_files = 3
    /\ batch.successful_files = 1
    /\ KindOf(1) = "corrupt"
    /\ fstate[2] = "error"
    /\ Len(batch.output_zip.entries) = 1
    /\ batch.output_zip.entries[1].name = <<"a", " ", "(inverted)", ".pptx">>

\* C9: process_files never raises for a batch with zero successful results
\* (every job failed, or no job at all), and returns successful_files = 0
\* with an output archive that is a valid archive without entries.
C9_ZeroSuccessValidArchive ==
    ~streaming =>
        /\ pc = "raised" => \E k \in 1..Len(results) : results[k].success
        /\ (pc = "done" /\ CountSuccess(results) = 0) =>
              /\ batch.successful_files = 0
              /\ batch.output_zip.is_zipfile
              /\ batch.output_zip.entries = <<>>

\* A directory entry of an archive.
IsDirectoryEntry(name) == EndsWith(name, "/")

\* A platform metadata entry: a path under __MACOSX or a "._" resource file.
IsPlatformMetadata(name) ==
    \/ StartsWith(name, "__MACOSX")
    \/ StartsWith(Basename(name), "._")

\* A document entry.
IsDocumentEntry(name) == EndsWith(name, ".pptx")

\* C10: the container is expanded into one job per document entry, named by
\* the entry's bare filename; directory entries, non-document entries and
\* platform metadata entries yield no job; both extraction routines select
\* the same entries.
C10_ExpansionSelectsDocuments ==
    /\ "inverter" \in zip_done =>
          extracted =
              LET kept == SelectSeq(namelist,
                              LAMBDA name : /\ IsDocumentEntry(name)
                                            /\ ~IsDirectoryEntry(name)
                                            /\ ~IsPlatformMetadata(name))
              IN  [i \in 1..Len(kept) |->
                     [data |-> ZipRead(kept[i]), filename |-> Basename(kept[i])]]
    /\ zip_done = {"inverter", "file_handler"} => extracted = extracted_fh

\* ---- colour transform

Pixels(img) == 1..Len(img.data)
Abs(x) == IF x < 0 THEN 0 - x ELSE x
SwapPair(t) == <<t[2], t[1]>>
Between(x, a, b) == (a <= x /\ x <= b) \/ (b <= x /\ x <= a)

\* The RGB content of a source image, band values before any pass.
SourceRGB(img) ==
    [k \in Pixels(img) |->
        CASE img.mode \in {"L", "LA"} ->
                <<img.data[k][1], img.data[k][1], img.data[k][1]>>
          [] img.mode = "P" ->
                <<img.palette[img.data[k][1]][1], img.palette[img.data[k][1]][2],
                  img.palette[img.data[k][1]][3]>>
          [] OTHER -> <<img.data[k][1], img.data[k][2], img.data[k][3]>>]

ImageRGB(img) ==
    [k \in Pixels(img) |-> <<img.data[k][1], img.data[k][2], img.data[k][3]>>]

\* C11: with target_dark = (0,0,0) and target_light = (255,255,255) every
\* band value v of every pixel comes out as exactly 255 - v.
C11_DefaultPairIsNegative ==
    passes = <<DefaultPair>> =>
        \A k \in Pixels(source) : \A i \in 1..3 :
            image.data[k][i] = MaxChannel - SourceRGB(source)[k][i]

\* A band value on which the float path of the remap would drift.
C11_Witness ==
    /\ passes = <<DefaultPair>>
    /\ source \in GradientImages
    /\ source.data[1][1] = 65
    /\ image.data[1][1] = 190

\* round(dark + (v' / 255) * (light - dark)) for the inverted band value v'.
RoundedRemap(vi, dark, light) ==
    (2 * (MaxChannel * dark + vi * (light - dark)) + MaxChannel)
        \div (2 * MaxChannel)

\* C12: for every pair other than the default one, each band of the output
\* is round(dark_c + ((255 - v) / 255) * (light_c - dark_c)) and lies between
\* dark_c and light_c.
C12_RemapRoundsWithinTargets ==
    (Len(passes) = 1 /\ passes[1] # DefaultPair) =>
        \A k \in Pixels(source) : \A i \in 1..3 :
            LET v == SourceRGB(source)[k][i]
                dark == passes[1][1][i]
                light == passes[1][2][i]
            IN  /\ image.data[k][i] = RoundedRemap(MaxChannel - v, dark, light)
                /\ Between(image.data[k][i], dark, light)

\* C13 as stated: the pair (A,B) and then the swapped pair (B,A) bring every
\* band value back to within 2 of where it started.
C13_SwappedPairRecovers ==
    (Len(passes) = 2 /\ passes[2] = SwapPair(passes[1])) =>
        \A k \in Pixels(source) : \A i \in 1..3 :
            Abs(image.data[k][i] - SourceRGB(source)[k][i]) <= 2

\* C13: two passes with the default pair bring every band value back exactly.
C13_DefaultTwiceRecovers ==
    passes = <<DefaultPair, DefaultPair>> =>
        ImageRGB(image) = SourceRGB(source)

C13_Witness ==
    /\ passes = <<DefaultPair, DefaultPair>>
    /\ source \in GradientImages
    /\ source.data[1][1] = 65
    /\ image.data[1] = source.data[1]

\* The transparency of a source image, per pixel, for the three encodings.
HasTransparency(img) ==
    \/ img.mode \in {"RGBA", "P"}
    \/ img.mode = "RGB" /\ img.transparency # NoKey

SourceAlpha(img) ==
    [k \in Pixels(img) |->
        CASE img.mode = "RGBA" -> img.data[k][4]
          [] img.mode = "P" -> img.palette[img.data[k][1]][4]
          [] OTHER -> IF img.data[k] = img.transparency THEN 0
                      ELSE MaxChannel]

\* C14: whatever the target pair, the alpha of every pixel of the output is
\* the alpha of that pixel of the input, for an RGBA input, a palette input
\* and a colour-keyed RGB input.
C14_AlphaUntouched ==
    (Len(passes) = 1 /\ HasTransparency(source)) =>
        /\ image.mode = "RGBA"
        /\ \A k \in Pixels(source) : image.data[k][4] = SourceAlpha(source)[k]

C14_Witness ==
    /\ Len(passes) = 1
    /\ passes[1] # DefaultPair
    /\ source.mode = "P"
    /\ source.data = <<<<3>>, <<2>>>>
    /\ image.data[1][4] = 128
    /\ image.data[2][4] = 0

\* C15: for an RGB image with a transparency key colour the output alpha is
\* 0 exactly at the pixels equal to the key and 255 elsewhere, and a black
\* source pixel comes out as target_light, fully opaque.
C15_ColourKeyMask ==
    (Len(passes) = 1 /\ source.mode = "RGB" /\ source.transparency # NoKey) =>
        \A k \in Pixels(source) :
            /\ image.data[k][4] =
                  (IF source.data[k] = source.transparency THEN 0
                   ELSE MaxChannel)
            /\ source.data[k] = Black =>
                  image.data[k] = <<passes[1][2][1], passes[1][2][2],
                                    passes[1][2][3], MaxChannel>>

\* C16: the output is RGBA exactly when the input was RGBA, colour-keyed RGB
\* or palette, and RGB otherwise (a grayscale input as three equal bands);
\* its size is the input's size.
C16_OutputMode ==
    Len(passes) = 1 =>
        /\ image.mode = (IF HasTransparency(source) THEN "RGBA" ELSE "RGB")
        /\ \A k \in Pixels(image) :
              Len(image.data[k]) = (IF HasTransparency(source) THEN 4 ELSE 3)
        /\ (source.mode = "L" /\ passes[1] = DefaultPair) =>
              \A k \in Pixels(image) :
                  /\ image.data[k][1] = image.data[k][2]
                  /\ image.data[k][2] = image.data[k][3]
        /\ image.size = source.size
        /\ Len(image.data) = Len(source.data)

C16_Witness ==
    /\ Len(passes) = 1
    /\ source.mode = "P"
    /\ Len(source.data) = 2
    /\ image.mode = "RGBA"

\* ---- one slide

SlideReturned == slide_out.state = "returned"

Solid(color) == [type |-> "solid", rgb |-> color]

\* The picture blob a shape shows, transformed or not.
ImageOrigin(shape) ==
    IF Len(shape.image) = 4 THEN shape.image[2] ELSE shape.image

PicturesBefore ==
    {i \in 1..Len(slide_before.shapes) : slide_before.shapes[i].kind = "picture"}

\* Where the shapes showing original picture i stand in the shape list now.
StandsFor(i) ==
    {j \in 1..Len(slide.shapes) :
        /\ slide.shapes[j].kind = "picture"
        /\ ImageOrigin(slide.shapes[j]) = slide_before.shapes[i].image}

\* C17: after process_slide returns without a Background or Text warning the
\* background is a solid fill of config.background_color and every run of
\* every shape has config.foreground_color, whatever the colours were and
\* whatever invert_images is.
C17_BackgroundAndTextSet ==
    (/\ SlideReturned
     /\ \A k \in 1..Len(slide_out.warnings) :
           slide_out.warnings[k] \notin {"Background: error", "Text: error"})
    => /\ slide.background = Solid(slide_config.background_color)
       /\ \A j \in 1..Len(slide.shapes) :
             \A r \in 1..Len(slide.shapes[j].runs) :
                 slide.shapes[j].runs[r] = slide_config.foreground_color

C17_Witness ==
    /\ SlideReturned
    /\ slide_out.warnings = <<>>
    /\ slide_config.invert_images
    /\ slide_config.foreground_color = Yellow
    /\ slide_before.background = Solid(White)
    /\ Len(slide_before.shapes) = 2
    /\ slide_before.shapes[1].runs = <<NoColor, OldRed>>
    /\ slide_before.shapes[2].kind = "picture"
    /\ slide.background = Solid(Navy)
    /\ slide.shapes[1].runs = <<Yellow, Yellow>>

\* C18: with invert_images false the shape list after process_slide is the
\* shape list before it, shape by shape, apart from run colours: nothing is
\* removed, added or reordered and every picture keeps its image.
C18_ShapesUntouchedWithoutImages ==
    (slide_out.state # "none" /\ ~slide_config.invert_images) =>
        /\ Len(slide.shapes) = Len(slide_before.shapes)
        /\ \A j \in 1..Len(slide.shapes) :
              [slide.shapes[j] EXCEPT !.runs = slide_before.shapes[j].runs]
                  = slide_before.shapes[j]

C18_Witness ==
    /\ SlideReturned
    /\ ~slide_config.invert_images
    /\ Len(slide_before.shapes) = 3
    /\ slide_before.shapes[1].kind = "picture"
    /\ slide_before.shapes[1].fault = "none"
    /\ slide_before.shapes[2].kind = "text"
    /\ slide_before.shapes[3].kind = "picture"
    /\ slide.shapes[1] = slide_before.shapes[1]
    /\ slide.shapes[2] # slide_before.shapes[2]

\* C19: with invert_images true every picture whose transform succeeds is
\* replaced by exactly one new picture with its left, top, width and height,
\* and the slide has as many shapes after process_slide as before.
C19_PicturesReplacedInPlace ==
    (SlideReturned /\ slide_config.invert_images) =>
        /\ \A i \in PicturesBefore :
              slide_before.shapes[i].fault = "none" =>
                  /\ Cardinality(StandsFor(i)) = 1
                  /\ \A j \in StandsFor(i) :
                        LET old == slide_before.shapes[i]
                            new == slide.shapes[j]
                        IN  /\ new.shape_id # old.shape_id
                            /\ <<new.left, new.top, new.width, new.height>>
                                  = <<old.left, old.top, old.width, old.height>>
        /\ Len(slide.shapes) = Len(slide_before.shapes)

\* C20: invert_image is called on the pictures in list order, and for two
\* pictures P before Q the shape standing for P after process_slide is before
\* the shape standing for Q, also when transforms fail.
C20_PictureOrderKept ==
    SlideReturned =>
        /\ \A a, b \in 1..Len(slide_out.processed) :
              a < b => slide_out.processed[a] < slide_out.processed[b]
        /\ \A p, q \in PicturesBefore :
              p < q => \A j \in StandsFor(p) : \A k \in StandsFor(q) : j < k

\* The pictures of the slide handed in, in list order, and those among them
\* on which invert_image fails.
PictureIdsBefore ==
    LET pics == SelectSeq(slide_before.shapes, LAMBDA x : x.kind = "picture")
    IN  [k \in 1..Len(pics) |-> pics[k].shape_id]

FailingPictures ==
    {i \in PicturesBefore : slide_before.shapes[i].fault # "none"}

ImageWarnings ==
    SelectSeq(slide_out.warnings,
              LAMBDA w : w = "Image processing failed: error")

\* C21: a picture that fails never makes process_slide raise: each failure
\* becomes one warning 'Image processing failed: ...' and invert_image is
\* still called on every other collected picture.
C21_PictureFailureContained ==
    (/\ slide_out.state # "none"
     /\ slide_config.invert_images
     /\ \A j \in 1..Len(slide_before.shapes) :
           slide_before.shapes[j].kind # "unknown")
    => /\ SlideReturned
       /\ slide_out.processed = PictureIdsBefore
       /\ Len(ImageWarnings) = Cardinality(FailingPictures)

C21_Witness ==
    /\ SlideReturned
    /\ slide_config.invert_images
    /\ Len(slide_before.shapes) = 3
    /\ slide_before.shapes[1].kind = "picture"
    /\ slide_before.shapes[1].fault = "decode"
    /\ slide_before.shapes[2].kind = "picture"
    /\ slide_before.shapes[2].fault = "insert"
    /\ slide_before.shapes[3].kind = "picture"
    /\ slide_before.shapes[3].fault = "none"
    /\ slide_out.processed = <<1, 2, 3>>
    /\ Len(slide_out.warnings) = 2

\* ---- one document

\* The slides of the deck on which process_slide raises.
RaisingSlides ==
    {i \in 1..Len(deck.slides) :
        \E j \in 1..Len(deck.slides[i].shapes) :
            deck.slides[i].shapes[j].kind = "unknown"}

\* C22: a slide on which process_slide raises does not abort its document:
\* process_slide_safe returns (False, ['Slide failed: ...']), every slide is
\* still visited in document order, and the result is successful and carries
\* 'Slide i: Slide failed: ...' for that slide i.
C22_SlideFailureContained ==
    (deck_pc = "done" /\ deck.kind = "deck") =>
        /\ deck_trace.visited = [i \in 1..Len(deck.slides) |-> i]
        /\ deck_result.success
        /\ deck_result.output_data = SavedBytes(deck)
        /\ \A i \in RaisingSlides :
              /\ process_slide_safe(deck.slides[i], deck_config).success = FALSE
              /\ process_slide_safe(deck.slides[i], deck_config).warnings
                    = <<"Slide failed: error">>
              /\ Cardinality({k \in 1..Len(deck_result.warnings) :
                    deck_result.warnings[k]
                        = "Slide " \o ToString(i) \o ": Slide failed: error"})
                    = 1
        /\ \A i \in 1..Len(deck.slides) :
              deck_trace.slides[i] = process_slide(deck.slides[i], deck_config).slide

C22_Witness ==
    /\ deck_pc = "done"
    /\ Len(deck.slides) = 2
    /\ RaisingSlides = {1}
    /\ Len(deck.slides[2].shapes) = 1
    /\ deck.slides[2].shapes[1].kind = "text"
    /\ ~deck.slides[2].bg_fault
    /\ deck_result.success
    /\ deck_result.warnings = <<"Slide 1: Slide failed: error">>
    /\ deck_trace.visited = <<1, 2>>
    /\ deck_trace.slides[2].background = Solid(deck_config.background_color)

\* ---- contrast validation

\* The WCAG contrast ratio of two colours: (lighter + 0.05) / (darker + 0.05).
WcagRatio(a, b) ==
    LET la == calculate_luminance(a)
        lb == calculate_luminance(b)
    IN  IF la >= lb THEN Ratio(la + Flare, lb + Flare)
        ELSE Ratio(lb + Flare, la + Flare)

\* C23: calculate_contrast_ratio(X, X) is 1.0 for every colour X.
C23_SameColourRatioOne ==
    (val_pc = "done" /\ val_colors[1] = val_colors[2]) =>
        val_ratio.num = val_ratio.den

\* C24: validate_color_contrast returns exactly the 'very similar' warning
\* when the WCAG ratio of the pair is below 1.5, exactly the AA warning when
\* it is at least 1.5 and below 4.5, and nothing when it is 4.5 or more.
C24_WarningByRatio ==
    val_pc = "done" =>
        LET r == WcagRatio(val_colors[1], val_colors[2])
        IN  val_warnings =
                (IF RatioBelow(r, 3, 2) THEN <<VerySimilar>>
                 ELSE IF RatioBelow(r, 9, 2) THEN <<BelowAA>>
                 ELSE <<>>)

\* ---- command line

\* Both colour arguments parse.
ColoursParse ==
    /\ hex_to_rgb(cli_args.foreground).raised = None
    /\ hex_to_rgb(cli_args.background).raised = None

\* C25: contrast validation never stops a run: a command-line run whose
\* colours parse and that has files to process, once it has ended, has
\* submitted the batch to process_files.
C25_ValidationNeverBlocks ==
    (cli_pc = "done" /\ cli_args.files > 0 /\ ColoursParse) => cli_submitted

\* Exactly six hexadecimal digits after an optional leading '#'.
SixHexDigits(s) ==
    LET body == IF s # <<>> /\ Head(s) = "#" THEN Tail(s) ELSE s
    IN  /\ Len(body) = 6
        /\ \A i \in 1..6 : body[i] \in HexDigits

\* C26: a colour argument that is not six hexadecimal digits after an
\* optional '#' makes hex_to_rgb and from_hex raise ValueError, and the run
\* that has reached the colours ends with that error, exit code 1 and
\* nothing submitted.
C26_MalformedColourRejected ==
    \A s \in {cli_args.foreground, cli_args.background} :
        ~SixHexDigits(s) =>
            /\ hex_to_rgb(s).raised = "ValueError"
            /\ from_hex(cli_args.foreground, cli_args.background, "(inverted)",
                        "out", TRUE, cli_args.jpeg_quality).raised = "ValueError"
            /\ cli_pc \notin {"files", "config"} /\ cli_args.files > 0 =>
                   /\ cli_pc = "done"
                   /\ cli_error = "ValueError"
                   /\ cli_exit = 1
                   /\ ~cli_submitted

\* ---- alpha-carrying modes

\* The per-pixel alpha band of a source image that has one.
ExplicitAlpha(img) ==
    [k \in Pixels(img) |->
        IF img.mode = "LA" THEN img.data[k][2] ELSE img.data[k][4]]

\* C27: an image that carries an explicit per-pixel alpha channel, RGBA or
\* grayscale with alpha, comes out of a pass as RGBA with every pixel's alpha
\* as it was in the source; none comes out as RGB.
C27_EveryAlphaModeKeepsAlpha ==
    (Len(passes) = 1 /\ source.mode \in {"RGBA", "LA"}) =>
        /\ image.mode = "RGBA"
        /\ \A k \in Pixels(source) :
              /\ Len(image.data[k]) = 4
              /\ image.data[k][4] = ExplicitAlpha(source)[k]

\* ---- failed replacement

\* C28: a picture for which invert_image returns a warning, whatever step
\* failed, is still on the slide after process_slide, the same shape with the
\* same image: a failed replacement never leaves the original removed.
C28_FailedPictureStillOnSlide ==
    (SlideReturned /\ slide_config.invert_images) =>
        \A i \in FailingPictures :
            \E j \in 1..Len(slide.shapes) :
                slide.shapes[j] = slide_before.shapes[i]

\* ---- archive entry names

\* C29: the entry names of the output archive are unique: no two successful
\* jobs of one batch are written under the same name.
C29_EntryNamesUnique ==
    Returned =>
        \A a, b \in 1..Len(batch.output_zip.entries) :
            a # b => batch.output_zip.entries[a].name
                        # batch.output_zip.entries[b].name

\* ---- configuration round trip

\* C30: the configuration the worker rebuilds from the payload is the
\* caller's configuration in every field, jpeg_quality included.
C30_WorkerConfigIsCallerConfig ==
    deck_pc = "done" =>
        /\ deck_trace.cfg = deck_config
        /\ _config_from_payload(_config_to_payload(deck_config)) = deck_config

====
